---- MODULE Spec2Model ----
(***************************************************************************)
(* Sudoku solver: the constraint-satisfaction engine of sudoku_csp.py      *)
(* (SudokuCSP: load, ac3, revise, backtrack, solve) and the population     *)
(* seeding of Sudoku_solver.py (Population.seed).                          *)
(*                                                                         *)
(* The board is scaled: the source works on a 9x9 board with 3x3 blocks,   *)
(* the model on an N x N board with Box x Box blocks, Box = 2.  Every      *)
(* loop of the source that runs over range(9) runs over 0..N-1 here, and   *)
(* the digit range 1..9 is 1..N.                                           *)
(***************************************************************************)
EXTENDS Integers, Sequences, FiniteSets, TLC

Box == 2
N == Box * Box

\* Number of cells, in GivenOrder, that an input grid may fill with 0..N.
GivenCells == 4
\* Number of cells, in GivenOrder, that an input grid may fill with any value
\* of InputValues, the values outside 0..N included.
OutGivenCells == 2
\* Number of cells, in SeedOrder, in which a grid given to seed may differ
\* from SeedBase.
SeedCells == 4

\* Cells of the window a grid loaded into a used instance may fill, and the
\* number of loads one instance receives.
ReloadCells == 1
MaxLoads == 2
\* Largest population size Nc passed to seed.
MaxNc == 2
\* The retry budget of seed: 500000 in the source, scaled in the model.
RetryBudget == 2

Idx == 0 .. (N - 1)
Cells == Idx \X Idx
Digits == 1 .. N

(***************************************************************************)
(* Sequence helpers.                                                       *)
(***************************************************************************)
\* Python list.remove(x): drops the first occurrence of x.
RECURSIVE ListRemove(_, _)
ListRemove(s, x) ==
    IF s = <<>> THEN <<>>
    ELSE IF Head(s) = x THEN Tail(s)
    ELSE <<Head(s)>> \o ListRemove(Tail(s), x)

Range(s) == {s[k] : k \in 1 .. Len(s)}

(***************************************************************************)
(* SudokuCSP.__init__                                                      *)
(***************************************************************************)
\* self.variables: the cells in row-major order.
variables == [k \in 1 .. (N * N) |-> <<(k - 1) \div N, (k - 1) % N>>]

\* self.domains after construction: list(range(1, 10)) for every cell.
FullDomain == [k \in 1 .. N |-> k]

\* self.neighbors: row, column and block of the cell, minus the cell.
\* Mutant of neighbors: the block loop (lines 27-30) is left out.
neighbors_no_block ==
    [var \in Cells |->
        ({<<var[1], i>> : i \in Idx} \cup {<<i, var[2]>> : i \in Idx}) \ {var}]

neighbors ==
    [var \in Cells |->
        LET row == var[1]
            col == var[2]
            row_block == Box * (row \div Box)
            col_block == Box * (col \div Box)
        IN  ({<<row, i>> : i \in Idx} \cup {<<i, col>> : i \in Idx}
             \cup ((row_block .. (row_block + Box - 1))
                   \X (col_block .. (col_block + Box - 1))))
            \ {var}]

\* "for neighbor in self.neighbors[var]": a Python set has one iteration
\* order per build; the model iterates the set in row-major order.
NeighborSeqs ==
    [var \in Cells |-> SelectSeq(variables, LAMBDA v : v \in neighbors[var])]

NeighborSeq(var) == NeighborSeqs[var]

\* State of a SudokuCSP instance and of a solve() call on it.
VARIABLES grid, domains, queue, pc, ac3ret, assignment, stack, retval,
          result, btCalls, loads

\* State of a Population and of a seed() call on it.
VARIABLES given, Nc, candidates, cand, p, rowIdx, rowVals, ii, spc, sret

\* History of a seed() call: the number of times "ii += 1" has run since the
\* call began, over all rows of all candidates.
VARIABLE attempts

cspVars == <<grid, domains, queue, pc, ac3ret, assignment, stack, retval,
             result, btCalls, loads>>

seedVars == <<given, Nc, candidates, cand, p, rowIdx, rowVals, ii, spc, sret,
              attempts>>

vars == <<cspVars, seedVars>>

(***************************************************************************)
(* Input grids.                                                            *)
(***************************************************************************)
\* Cells an input grid may fill, in the order in which the bounds admit them.
GivenOrder == << <<0, 0>>, <<0, 3>>, <<1, 1>>, <<2, 2>>, <<1, 0>>, <<3, 2>> >>

Window(k) == {GivenOrder[j] : j \in 1 .. k}

\* Values a cell of an input grid may hold: 0 (blank), the digits, and one
\* value on each side outside 0..N.
InputValues == (0 - 1) .. (N + 1)

GridsOver(w, values) ==
    {[c \in Cells |-> IF c \in w THEN f[c] ELSE 0] : f \in [w -> values]}

Grids ==
    GridsOver(Window(GivenCells), 0 .. N)
    \cup GridsOver(Window(OutGivenCells), InputValues)

InRange(g) == \A c \in Cells : g[c] \in 0 .. N

(***************************************************************************)
(* SudokuCSP.load / init_domains                                           *)
(***************************************************************************)
\* Mutant of init_domains: the grid is read transposed (grid[col][row]).
init_domains_transposed(g, doms) ==
    [c \in Cells |-> IF g[<<c[2], c[1]>>] # 0 THEN <<g[<<c[2], c[1]>>]>>
                                               ELSE doms[c]]

init_domains(g, doms) ==
    [c \in Cells |-> IF g[c] # 0 THEN <<g[c]>> ELSE doms[c]]

(***************************************************************************)
(* SudokuCSP.revise: "for x in self.domains[xi]" with removal from the     *)
(* list being iterated.  i is the iterator's index (1-based).              *)
(***************************************************************************)
RECURSIVE ReviseLoop(_, _, _, _)
ReviseLoop(dxi, dxj, i, revised) ==
    IF i > Len(dxi) THEN [dom |-> dxi, revised |-> revised]
    ELSE IF \A k \in 1 .. Len(dxj) : dxi[i] = dxj[k]
         THEN ReviseLoop(ListRemove(dxi, dxi[i]), dxj, i + 1, TRUE)
         ELSE ReviseLoop(dxi, dxj, i + 1, revised)

\* Mutant of revise: a value goes when some value of xj equals it.
RECURSIVE ReviseLoopAny(_, _, _, _)
ReviseLoopAny(dxi, dxj, i, revised) ==
    IF i > Len(dxi) THEN [dom |-> dxi, revised |-> revised]
    ELSE IF \E k \in 1 .. Len(dxj) : dxi[i] = dxj[k]
         THEN ReviseLoopAny(ListRemove(dxi, dxi[i]), dxj, i + 1, TRUE)
         ELSE ReviseLoopAny(dxi, dxj, i + 1, revised)

revise_any_equal(doms, xi, xj) == ReviseLoopAny(doms[xi], doms[xj], 1, FALSE)

\* Mutant of revise: the two domains are passed in the wrong order.
revise_swapped(doms, xi, xj) == ReviseLoop(doms[xj], doms[xi], 1, FALSE)

revise(doms, xi, xj) == ReviseLoop(doms[xi], doms[xj], 1, FALSE)

(***************************************************************************)
(* SudokuCSP.ac3                                                           *)
(***************************************************************************)
RECURSIVE ArcsFrom(_)
ArcsFrom(k) ==
    IF k > Len(variables) THEN <<>>
    ELSE [j \in 1 .. Cardinality(neighbors[variables[k]]) |->
             <<variables[k], NeighborSeq(variables[k])[j]>>]
         \o ArcsFrom(k + 1)

\* queue = [(var, neighbor) for var in variables for neighbor in neighbors[var]]
InitialQueue == ArcsFrom(1)

\* Mutant of Pop: the head is read but left on the queue (queue[0]).
Pop_keeps_head(q) == q

\* "queue.pop(0)": the queue after its head is taken off.
Pop(q) == Tail(q)

\* Mutant of Requeue: nothing is put back on the queue.
Requeue_nothing(xi, xj) == <<>>

\* "for xk in self.neighbors[xi]: if xk != xj: queue.append((xk, xi))"
Requeue(xi, xj) ==
    LET ks == SelectSeq(NeighborSeq(xi), LAMBDA xk : xk # xj)
    IN  [j \in 1 .. Len(ks) |-> <<ks[j], xi>>]

\* Mutant of DomainEmpty: off by one, a singleton counts as empty.
DomainEmpty_off_by_one(d) == Len(d) <= 1

\* The test "len(self.domains[xi]) == 0" of ac3.
DomainEmpty(d) == Len(d) = 0

(***************************************************************************)
(* Backtracking helpers.                                                   *)
(***************************************************************************)
\* Mutant of is_consistent: only the peers of the same row are looked at.
is_consistent_row_only(var, value, asg) ==
    ~ \E neighbor \in neighbors[var] :
        /\ neighbor[1] = var[1]
        /\ neighbor \in DOMAIN asg /\ asg[neighbor] = value

is_consistent(var, value, asg) ==
    ~ \E neighbor \in neighbors[var] :
        neighbor \in DOMAIN asg /\ asg[neighbor] = value

\* A scan that lets a cell of equal size replace the one kept, so that it
\* ends on the last cell of minimum size.
RECURSIVE MinScanLast(_, _, _, _)
MinScanLast(seq, doms, k, best) ==
    IF k > Len(seq) THEN best
    ELSE CHOOSE r \in
           {MinScanLast(seq, doms, k + 1, b) :
              b \in {IF Len(doms[seq[k]]) <= Len(doms[best]) THEN seq[k] ELSE best}} : TRUE

\* min(iterable, key=...): scans the list once and keeps the element seen
\* so far with the smallest key, replacing it only by a strictly smaller one.
\* b is the element kept after position k; the scan goes on with it.
RECURSIVE MinScan(_, _, _, _)
MinScan(seq, doms, k, best) ==
    IF k > Len(seq) THEN best
    ELSE CHOOSE r \in
           {MinScan(seq, doms, k + 1, b) :
              b \in {IF Len(doms[seq[k]]) < Len(doms[best]) THEN seq[k] ELSE best}} : TRUE

\* Mutant of select_unassigned_variable: the last cell of minimum size.
select_last_minimum(asg, doms) ==
    CHOOSE r \in
      {MinScanLast(unassigned, doms, 2, unassigned[1]) :
         unassigned \in {SelectSeq(variables, LAMBDA v : v \notin DOMAIN asg)}} : TRUE

\* Lines 80-81: unassigned is the list of the cells not in the assignment,
\* in the order of self.variables; its minimum by domain size is returned.
select_unassigned_variable(asg, doms) ==
    CHOOSE r \in
      {MinScan(unassigned, doms, 2, unassigned[1]) :
         unassigned \in {SelectSeq(variables, LAMBDA v : v \notin DOMAIN asg)}} : TRUE

order_domain_values(var, doms) == doms[var]

EmptyAssignment == [c \in {} |-> 0]

Assign(asg, var, value) ==
    [c \in (DOMAIN asg) \cup {var} |-> IF c = var THEN value ELSE asg[c]]

\* Mutant of Unassign: the entry is left in the assignment.
Unassign_forgotten(asg, var) == asg

Unassign(asg, var) == [c \in (DOMAIN asg) \ {var} |-> asg[c]]

(***************************************************************************)
(* State machine.                                                          *)
(*   pc: "new"    instance constructed                                     *)
(*       "loaded" load(grid) returned                                      *)
(*       "ac3"    inside the while loop of ac3                             *)
(*       "call"   at the entry of a backtrack call                         *)
(*       "loop"   at the head of the for loop of the top frame             *)
(*       "return" a backtrack call has returned retval                     *)
(*       "done"   solve has returned result                                *)
(***************************************************************************)
CspInit ==
    /\ grid = [c \in Cells |-> 0]
    /\ domains = [c \in Cells |-> FullDomain]
    /\ queue = <<>>
    /\ pc = "new"
    /\ ac3ret = "none"
    /\ assignment = EmptyAssignment
    /\ stack = <<>>
    /\ retval = "none"
    /\ result = "none"
    /\ btCalls = 0
    /\ loads = 0

\* A Population after __init__: no candidates, no seed() call running.
SeedIdle ==
    /\ given = [c \in Cells |-> 0]
    /\ Nc = 0
    /\ candidates = <<>>
    /\ cand = <<>>
    /\ p = 0
    /\ rowIdx = 0
    /\ rowVals = <<>>
    /\ ii = 0
    /\ spc = "idle"
    /\ sret = "none"
    /\ attempts = 0

Init == CspInit /\ SeedIdle

\* load(grid)
Load ==
    /\ pc = "new"
    /\ \E gr \in Grids :
        /\ grid' = gr
        /\ domains' = init_domains(gr, domains)
    /\ pc' = "loaded"
    /\ loads' = loads + 1
    /\ UNCHANGED <<queue, ac3ret, assignment, stack, retval, result, btCalls>>
    /\ UNCHANGED seedVars

\* solve() calls ac3(): the queue is built.
Ac3Start ==
    /\ pc = "loaded"
    /\ queue' = InitialQueue
    /\ pc' = "ac3"
    /\ UNCHANGED <<grid, domains, ac3ret, assignment, stack, retval, result, btCalls>>
    /\ UNCHANGED <<loads, seedVars>>

\* One iteration of "while queue".
Ac3Step ==
    /\ pc = "ac3"
    /\ queue # <<>>
    /\ LET xi == Head(queue)[1]
           xj == Head(queue)[2]
           r == revise(domains, xi, xj)
       IN  /\ domains' = [domains EXCEPT ![xi] = r.dom]
           /\ IF r.revised
              THEN IF DomainEmpty(r.dom)
                   THEN /\ ac3ret' = "False"
                        /\ queue' = <<>>
                        /\ pc' = "call"
                   ELSE /\ queue' = Pop(queue) \o Requeue(xi, xj)
                        /\ UNCHANGED <<ac3ret, pc>>
              ELSE /\ queue' = Pop(queue)
                   /\ UNCHANGED <<ac3ret, pc>>
    /\ UNCHANGED <<grid, assignment, stack, retval, result, btCalls>>
    /\ UNCHANGED <<loads, seedVars>>

\* The queue has drained: ac3 returns True and solve goes on to backtrack({}).
Ac3Done ==
    /\ pc = "ac3"
    /\ queue = <<>>
    /\ ac3ret' = "True"
    /\ pc' = "call"
    /\ UNCHANGED <<grid, domains, queue, assignment, stack, retval, result, btCalls>>
    /\ UNCHANGED <<loads, seedVars>>

\* Entry of backtrack(assignment).  A frame holds the call's locals: var and
\* the position i of the for loop; entry records the assignment the call
\* was entered with (history only, the code keeps no such copy).
BtCall ==
    /\ pc = "call"
    /\ btCalls' = 1
    /\ IF Cardinality(DOMAIN assignment) = Len(variables)
       THEN /\ retval' = "assignment"
            /\ pc' = "return"
            /\ UNCHANGED stack
       ELSE /\ stack' = Append(stack,
                  [var |-> select_unassigned_variable(assignment, domains),
                   i |-> 1,
                   entry |-> assignment])
            /\ pc' = "loop"
            /\ UNCHANGED retval
    /\ UNCHANGED <<grid, domains, queue, ac3ret, assignment, result>>
    /\ UNCHANGED <<loads, seedVars>>

\* Mutant of BtLoop: a search with forward checking of the cell itself, which
\* narrows the cell's domain to the value it tries.
BtLoop_narrows_domain ==
    /\ pc = "loop"
    /\ LET top == stack[Len(stack)]
           values == order_domain_values(top.var, domains)
       IN  IF top.i > Len(values)
           THEN /\ retval' = "None"
                /\ stack' = SubSeq(stack, 1, Len(stack) - 1)
                /\ pc' = "return"
                /\ UNCHANGED <<assignment, domains>>
           ELSE IF is_consistent(top.var, values[top.i], assignment)
                THEN /\ assignment' = Assign(assignment, top.var, values[top.i])
                     /\ domains' = [domains EXCEPT ![top.var] = <<values[top.i]>>]
                     /\ pc' = "call"
                     /\ UNCHANGED <<stack, retval>>
                ELSE /\ stack' = [stack EXCEPT ![Len(stack)].i = top.i + 1]
                     /\ UNCHANGED <<assignment, retval, pc, domains>>
    /\ UNCHANGED <<grid, queue, ac3ret, result, btCalls>>
    /\ UNCHANGED <<loads, seedVars>>

\* Head of "for value in order_domain_values(var, assignment)".
BtLoop ==
    /\ pc = "loop"
    /\ LET top == stack[Len(stack)]
           values == order_domain_values(top.var, domains)
       IN  IF top.i > Len(values)
           THEN /\ retval' = "None"
                /\ stack' = SubSeq(stack, 1, Len(stack) - 1)
                /\ pc' = "return"
                /\ UNCHANGED assignment
           ELSE IF is_consistent(top.var, values[top.i], assignment)
                THEN /\ assignment' = Assign(assignment, top.var, values[top.i])
                     /\ pc' = "call"
                     /\ UNCHANGED <<stack, retval>>
                ELSE /\ stack' = [stack EXCEPT ![Len(stack)].i = top.i + 1]
                     /\ UNCHANGED <<assignment, retval, pc>>
    /\ UNCHANGED <<grid, domains, queue, ac3ret, result, btCalls>>
    /\ UNCHANGED <<loads, seedVars>>

\* A backtrack call has returned: to its caller's "if result", or to solve.
BtReturn ==
    /\ pc = "return"
    /\ IF stack = <<>>
       THEN /\ result' = retval
            /\ pc' = "done"
            /\ UNCHANGED <<stack, assignment>>
       ELSE LET top == stack[Len(stack)]
            IN  IF retval = "assignment"
                THEN /\ stack' = SubSeq(stack, 1, Len(stack) - 1)
                     /\ UNCHANGED <<assignment, pc, result>>
                ELSE /\ assignment' = Unassign(assignment, top.var)
                     /\ stack' = [stack EXCEPT ![Len(stack)].i = top.i + 1]
                     /\ pc' = "loop"
                     /\ UNCHANGED result
    /\ UNCHANGED <<grid, domains, queue, ac3ret, retval, btCalls>>
    /\ UNCHANGED <<loads, seedVars>>

\* One fresh instance, one load, one solve: the use SudokuGUI.solver makes
\* of the engine ("s = SudokuCSP(); s.load(...); s.solve()").
Next == Load \/ Ac3Start \/ Ac3Step \/ Ac3Done \/ BtCall \/ BtLoop \/ BtReturn

Spec == Init /\ [][Next]_vars

\* The engine is single-threaded and synchronous: a call that can take its
\* next step takes it.
FairSpec == Spec /\ WF_vars(Next)

\* Grids loaded into an instance that has been loaded or solved before.
ReloadGrids == GridsOver(Window(ReloadCells), 0 .. N)

\* load(grid) on an instance that was loaded, or loaded and solved, before:
\* init_domains starts from the domains the instance holds now.  queue,
\* assignment and the results are locals of the solve() call that is over.
Reload ==
    /\ pc \in {"loaded", "done"}
    /\ loads < MaxLoads
    /\ \E gr \in ReloadGrids :
        /\ grid' = gr
        /\ domains' = init_domains(gr, domains)
    /\ pc' = "loaded"
    /\ loads' = loads + 1
    /\ queue' = <<>>
    /\ ac3ret' = "none"
    /\ assignment' = EmptyAssignment
    /\ stack' = <<>>
    /\ retval' = "none"
    /\ result' = "none"
    /\ btCalls' = 0
    /\ UNCHANGED seedVars

\* One instance used for several loads and solves.
ReuseNext == Next \/ Reload

ReuseSpec == Init /\ [][ReuseNext]_vars

(***************************************************************************)
(* Population.seed(Nc, given) of Sudoku_solver.py.                         *)
(*   spc: "idle"    no call running                                        *)
(*        "fill"    at "row = np.zeros(Nd)" of row rowIdx of candidate p   *)
(*        "check"   at the head of "while len(list(set(row))) != Nd"       *)
(*        "fitness" both loops are over, at self.update_fitness()          *)
(*        "done"    seed has returned sret ("0", "1") or raised            *)
(*                  (sret "ValueError")                                    *)
(***************************************************************************)
\* Candidate.is_row_duplicate, is_column_duplicate, is_block_duplicate: the
\* value is already in the row, the column, the block of the grid.
is_row_duplicate(gv, row, value) == \E j \in Idx : gv[<<row, j>>] = value

is_column_duplicate(gv, column, value) == \E j \in Idx : gv[<<j, column>>] = value

is_block_duplicate(gv, row, column, value) ==
    LET r0 == Box * (row \div Box)
        c0 == Box * (column \div Box)
    IN  \E r \in r0 .. (r0 + Box - 1), c \in c0 .. (c0 + Box - 1) :
            gv[<<r, c>>] = value

\* helper.values: the legal values of each square.
helper(gv) ==
    [c \in Cells |->
        IF gv[c] # 0 THEN <<gv[c]>>
        ELSE SelectSeq(FullDomain,
                 LAMBDA value :
                    ~ (\/ is_column_duplicate(gv, c[2], value)
                       \/ is_block_duplicate(gv, c[1], c[2], value)
                       \/ is_row_duplicate(gv, c[1], value)))]

\* random.randint(0, len(helper.values[i][j]) - 1) raises ValueError on an
\* empty range: some blank square of the row has no legal value.
DrawRaises(gv, r) ==
    \E j \in Idx : gv[<<r, j>>] = 0 /\ Len(helper(gv)[<<r, j>>]) = 0

\* The rows one pass over "for j in range(0, Nd)" can produce from square j
\* on: a given square keeps its value, a blank square takes any value of
\* its helper list.
RECURSIVE DrawnFrom(_, _, _)
DrawnFrom(gv, r, j) ==
    IF j = N THEN {<<>>}
    ELSE LET here == IF gv[<<r, j>>] # 0 THEN {gv[<<r, j>>]}
                     ELSE Range(helper(gv)[<<r, j>>])
         IN  {<<v>> \o rest : v \in here, rest \in DrawnFrom(gv, r, j + 1)}

DrawnRows(gv, r) == DrawnFrom(gv, r, 0)

\* Mutant of HasRowDuplicate: no row is ever found to hold a duplicate.
HasRowDuplicate_never(rv) == FALSE

\* len(list(set(row))) != Nd
HasRowDuplicate(rv) == Cardinality(Range(rv)) # N

\* A valid grid the seed inputs are derived from.
SeedBase ==
    [c \in Cells |->
        << <<1, 2, 3, 4>>, <<3, 4, 1, 2>>, <<2, 1, 4, 3>>, <<4, 3, 2, 1>> >>
            [c[1] + 1][c[2] + 1]]

SeedOrder == << <<0, 0>>, <<0, 1>>, <<2, 0>>, <<2, 1>>, <<1, 0>>, <<3, 3>> >>

\* Grids given to seed: SeedBase with the first SeedCells cells of SeedOrder
\* blank or holding any digit.
SeedGivens ==
    LET w == {SeedOrder[k] : k \in 1 .. SeedCells}
    IN  {[c \in Cells |-> IF c \in w THEN f[c] ELSE SeedBase[c]] :
            f \in [w -> 0 .. N]}

\* seed(Nc, given) is called: lines 18-35.
SeedCall ==
    /\ spc = "idle"
    /\ \E n \in 0 .. MaxNc, gv \in SeedGivens :
        /\ Nc' = n
        /\ given' = gv
        /\ spc' = IF n = 0 THEN "fitness" ELSE "fill"
    /\ candidates' = <<>>
    /\ cand' = <<>>
    /\ p' = 0
    /\ rowIdx' = 0
    /\ attempts' = 0
    /\ UNCHANGED <<rowVals, ii, sret>>
    /\ UNCHANGED cspVars

\* Mutant of OverBudget: one more retry is allowed.
OverBudget_late(n) == n > RetryBudget + 1

\* Line 54: "if ii > 500000".
OverBudget(n) == n > RetryBudget

\* Lines 38-51: row rowIdx is filled for the first time.
SeedFill ==
    /\ spc = "fill"
    /\ IF DrawRaises(given, rowIdx)
       THEN /\ sret' = "ValueError"
            /\ spc' = "done"
            /\ UNCHANGED <<rowVals, ii>>
       ELSE /\ \E rv \in DrawnRows(given, rowIdx) : rowVals' = rv
            /\ ii' = 0
            /\ spc' = "check"
            /\ UNCHANGED sret
    /\ UNCHANGED <<given, Nc, candidates, cand, p, rowIdx, attempts>>
    /\ UNCHANGED cspVars

\* Lines 52-58: the row holds a duplicate; it is drawn again or seed gives up.
SeedRetry ==
    /\ spc = "check"
    /\ HasRowDuplicate(rowVals)
    /\ ii' = ii + 1
    /\ attempts' = attempts + 1
    /\ IF OverBudget(ii + 1)
       THEN /\ sret' = "0"
            /\ spc' = "done"
            /\ UNCHANGED rowVals
       ELSE IF DrawRaises(given, rowIdx)
            THEN /\ sret' = "ValueError"
                 /\ spc' = "done"
                 /\ UNCHANGED rowVals
            ELSE /\ \E rv \in DrawnRows(given, rowIdx) : rowVals' = rv
                 /\ UNCHANGED <<sret, spc>>
    /\ UNCHANGED <<given, Nc, candidates, cand, p, rowIdx>>
    /\ UNCHANGED cspVars

\* Lines 60-61: the row holds no duplicate; it is stored, and the candidate
\* is appended after its last row.
SeedStoreRow ==
    /\ spc = "check"
    /\ ~HasRowDuplicate(rowVals)
    /\ IF rowIdx = N - 1
       THEN /\ candidates' = Append(candidates, Append(cand, rowVals))
            /\ cand' = <<>>
            /\ p' = p + 1
            /\ rowIdx' = 0
            /\ spc' = IF p + 1 = Nc THEN "fitness" ELSE "fill"
       ELSE /\ cand' = Append(cand, rowVals)
            /\ rowIdx' = rowIdx + 1
            /\ spc' = "fill"
            /\ UNCHANGED <<candidates, p>>
    /\ UNCHANGED <<given, Nc, rowVals, ii, sret, attempts>>
    /\ UNCHANGED cspVars

\* Lines 63-66: update_fitness() and "return 1".
SeedReturn ==
    /\ spc = "fitness"
    /\ sret' = "1"
    /\ spc' = "done"
    /\ UNCHANGED <<given, Nc, candidates, cand, p, rowIdx, rowVals, ii, attempts>>
    /\ UNCHANGED cspVars

SeedNext == SeedCall \/ SeedFill \/ SeedRetry \/ SeedStoreRow \/ SeedReturn

SeedSpec == Init /\ [][SeedNext]_vars

(***************************************************************************)
(* Sudoku validity, stated from the rules of the game (rows, columns and   *)
(* blocks), independently of the solver's neighbors table.                 *)
(***************************************************************************)
RowUnits == {{<<r, c>> : c \in Idx} : r \in Idx}
ColUnits == {{<<r, c>> : r \in Idx} : c \in Idx}
BlockUnits ==
    {{<<r, c>> : r \in (Box * br) .. (Box * br + Box - 1),
                 c \in (Box * bc) .. (Box * bc + Box - 1)} :
        br \in 0 .. (Box - 1), bc \in 0 .. (Box - 1)}
Units == RowUnits \cup ColUnits \cup BlockUnits

SameUnit(a, b) == a # b /\ \E u \in Units : a \in u /\ b \in u

\* a maps every cell to a digit and every unit holds each digit exactly once.
ValidGrid(a) ==
    /\ DOMAIN a = Cells
    /\ \A u \in Units : \A d \in Digits :
          Cardinality({c \in u : a[c] = d}) = 1

\* All valid full grids, built cell by cell.
RECURSIVE ExtendValid(_, _)
ExtendValid(k, S) ==
    IF k > N * N THEN S
    ELSE ExtendValid(k + 1,
            {[c \in (DOMAIN pd[1]) \cup {variables[k]} |->
                 IF c = variables[k] THEN pd[2] ELSE pd[1][c]] :
             pd \in {qd \in S \X Digits :
                       \A c \in DOMAIN qd[1] :
                          SameUnit(c, variables[k]) => qd[1][c] # qd[2]}})

AllValidGrids == ExtendValid(1, {EmptyAssignment})

\* The valid completions of an input grid.
Completions(g) == {s \in AllValidGrids : \A c \in Cells : g[c] # 0 => s[c] = g[c]}

\* Two givens that are peers hold the same value.
PeerConflict(g) ==
    \E a \in Cells, b \in Cells : SameUnit(a, b) /\ g[a] # 0 /\ g[a] = g[b]

Solved == pc = "done" /\ result = "assignment"

\* The domains load leaves on a fresh instance.
LoadedDomains == init_domains(grid, [c \in Cells |-> FullDomain])

(***************************************************************************)
(* Claims.                                                                 *)
(***************************************************************************)
\* C1: for an input grid with entries in 0..N, an assignment returned by
\* load + solve covers every cell, and every row, column and block of it
\* holds each digit exactly once.
C1_SolvedGridIsValid == (Solved /\ InRange(grid)) => ValidGrid(assignment)

C1_Witness ==
    Solved /\ InRange(grid) /\ Cardinality({c \in Cells : grid[c] # 0}) = GivenCells

\* C2: when the givens admit a valid completion, solve returns a complete
\* assignment, never None; when the completion is unique solve returns it.
C2_SolveIsComplete ==
    (pc = "done" /\ Completions(grid) # {}) =>
        /\ result = "assignment"
        /\ DOMAIN assignment = Cells
        /\ Cardinality(Completions(grid)) = 1 => Completions(grid) = {assignment}

C2_Witness ==
    Solved /\ Cardinality(Completions(grid)) = 1

\* C3: a returned assignment gives every nonzero input cell its input value.
C3_GivensPreserved ==
    Solved => \A c \in Cells :
                 grid[c] # 0 => c \in DOMAIN assignment /\ assignment[c] = grid[c]

C3_Witness ==
    Solved /\ Cardinality({c \in Cells : grid[c] # 0}) >= 2

\* C4 (as claimed): a grid with two equal peer givens is reported as
\* InvalidInput and backtrack is never invoked on it.
C4_PeerConflictIsInvalidInput ==
    (pc = "done" /\ PeerConflict(grid)) =>
        result = "InvalidInput" /\ btCalls = 0

\* C5: once ac3 has returned False, solve returns None, never an assignment.
C5_Ac3FalseGivesNone ==
    (pc = "done" /\ ac3ret = "False") => result = "None"

C5_Witness ==
    pc = "done" /\ ac3ret = "False" /\ btCalls = 1 /\ ~PeerConflict(grid)

\* C6 (as claimed): a grid with a value outside 0..N is rejected as Invalid,
\* is not solved and yields no assignment.
C6_OutOfRangeIsRejected ==
    (pc = "done" /\ ~InRange(grid)) =>
        result = "Invalid" /\ btCalls = 0 /\ ac3ret = "none"

\* C7: when seed returns 1 every stored candidate has, in each row, N
\* pairwise distinct values, and equals the given grid at every given cell.
C7_SeededRowsAreValid ==
    sret = "1" =>
        /\ Len(candidates) = Nc
        /\ \A k \in 1 .. Len(candidates) :
              /\ Len(candidates[k]) = N
              /\ \A r \in Idx :
                    /\ Len(candidates[k][r + 1]) = N
                    /\ Cardinality(Range(candidates[k][r + 1])) = N
                    /\ \A j \in Idx :
                          given[<<r, j>>] # 0 =>
                             candidates[k][r + 1][j + 1] = given[<<r, j>>]

\* seed returned 1 and stored a candidate with a duplicate in a column.
C7_Witness ==
    /\ sret = "1"
    /\ \E k \in 1 .. Len(candidates) : \E j \in Idx : \E r1 \in Idx, r2 \in Idx :
          /\ r1 # r2
          /\ candidates[k][r1 + 1][j + 1] = candidates[k][r2 + 1][j + 1]
          /\ given[<<r1, j>>] = 0

\* Some blank cell of the given grid has an empty helper list.
EmptyHelper(gv) == \E c \in Cells : gv[c] = 0 /\ Len(helper(gv)[c]) = 0

\* C8 (as claimed): with an empty helper list for some blank cell and
\* Nc >= 1, seed ends by returning 0.
C8_EmptyHelperReturnsFailure ==
    (spc = "done" /\ Nc >= 1 /\ EmptyHelper(given)) => sret = "0"

\* C9: every step of ac3 only removes values: each cell's domain after the
\* step is contained in its domain before the step and is no longer.
C9_Ac3OnlyRemoves ==
    [][pc = "ac3" =>
         \A c \in Cells :
            /\ Range(domains'[c]) \subseteq Range(domains[c])
            /\ Len(domains'[c]) <= Len(domains[c])]_vars

C9_Witness ==
    /\ pc = "ac3"
    /\ \E c \in Cells : Len(domains[c]) < Len(LoadedDomains[c])

\* C10: when ac3 has returned True no domain is empty and every value of
\* every cell has a different value in the domain of each peer.
C10_Ac3TrueIsArcConsistent ==
    ac3ret = "True" =>
        \A xi \in Cells :
            /\ domains[xi] # <<>>
            /\ \A xj \in neighbors[xi] :
                  \A x \in Range(domains[xi]) :
                     \E y \in Range(domains[xj]) : y # x

\* ac3 returned True after a blank cell was narrowed to one value.
C10_Witness ==
    /\ ac3ret = "True"
    /\ \E c \in Cells : grid[c] = 0 /\ Len(domains[c]) = 1

\* C11: every call revise(xi, xj) made by ac3 removes from xi's domain
\* exactly the values x for which xj's domain is the singleton {x}, keeps
\* the other values in their order, touches no other domain, and returns
\* True iff it removed a value.
C11_ReviseRemovesUnsupported ==
    [][(pc = "ac3" /\ queue # <<>>) =>
         LET xi == Head(queue)[1]
             xj == Head(queue)[2]
             supported(x) == \E y \in Range(domains[xj]) : y # x
             keep == SelectSeq(domains[xi], supported)
         IN  /\ domains'[xi] = keep
             /\ \A x \in Range(domains[xi]) :
                   x \notin Range(domains'[xi]) <=> Range(domains[xj]) = {x}
             /\ \A c \in Cells \ {xi} : domains'[c] = domains[c]
             /\ revise(domains, xi, xj).revised <=> keep # domains[xi]]_vars

\* ac3 is running and revise has removed two values from a blank cell.
C11_Witness ==
    /\ pc = "ac3"
    /\ \E c \in Cells : grid[c] = 0 /\ Len(domains[c]) = N - 2

\* C12: solve always terminates: ac3 ends (the queue drains or a domain is
\* found empty), and the search reaches Solved (an assignment of all N * N
\* cells) or Failed (the root call returns None).
C12_SolveTerminates ==
    <>(/\ pc = "done"
       /\ ac3ret \in {"True", "False"}
       /\ \/ result = "assignment" /\ Cardinality(DOMAIN assignment) = N * N
          \/ result = "None" /\ assignment = EmptyAssignment)

\* The root call has exhausted every branch after a successful ac3.
C12_Witness ==
    pc = "done" /\ result = "None" /\ ac3ret = "True"

\* C13: whenever a call of backtrack returns None the assignment is exactly
\* the one the call was entered with.
C13_UndoOnFailure ==
    [][(pc = "loop" /\ pc' = "return" /\ retval' = "None") =>
          /\ assignment' = stack[Len(stack)].entry
          /\ stack' = SubSeq(stack, 1, Len(stack) - 1)]_vars

\* A call below the root has returned None and its caller's tentative
\* entries are still in place.
C13_Witness ==
    /\ pc = "return"
    /\ retval = "None"
    /\ Len(stack) >= 2
    /\ Cardinality(DOMAIN assignment) = Len(stack)

\* C14: in every state of the search the partial assignment is consistent
\* (no two peer cells hold equal values) and every assigned value is in its
\* cell's current domain.
C14_AssignmentConsistent ==
    pc \in {"call", "loop", "return", "done"} =>
        \A c \in DOMAIN assignment :
            /\ assignment[c] \in Range(domains[c])
            /\ \A d \in DOMAIN assignment :
                  SameUnit(c, d) => assignment[c] # assignment[d]

\* The search holds all cells but one.
C14_Witness ==
    pc = "loop" /\ Cardinality(DOMAIN assignment) = N * N - 1

\* Position of a cell in row-major order.
RowMajor(c) == c[1] * N + c[2]

\* C15: the cell backtrack selects is unassigned, has a domain of minimum
\* size among the unassigned cells, and is the first such cell in row-major
\* order.
C15_SelectsFirstSmallest ==
    [][(pc = "call" /\ pc' = "loop") =>
          LET v == stack'[Len(stack')].var
              free == Cells \ DOMAIN assignment
          IN  /\ v \in free
              /\ \A c \in free : Len(domains[v]) <= Len(domains[c])
              /\ \A c \in free :
                    Len(domains[c]) = Len(domains[v]) => RowMajor(v) <= RowMajor(c)]_vars

\* A cell was selected that is not the first unassigned cell in row-major
\* order: a smaller domain further on won.
C15_Witness ==
    /\ pc = "loop"
    /\ \E c \in Cells \ DOMAIN assignment :
          /\ RowMajor(c) < RowMajor(stack[Len(stack)].var)
          /\ Len(domains[c]) > Len(domains[stack[Len(stack)].var])
    /\ \E c \in Cells \ DOMAIN assignment :
          /\ RowMajor(c) > RowMajor(stack[Len(stack)].var)
          /\ Len(domains[c]) = Len(domains[stack[Len(stack)].var])

\* C16: after every load, on a fresh instance or on one loaded or solved
\* before, a cell with grid value v # 0 has domain exactly <<v>> and a cell
\* with grid value 0 has the full domain 1..N.
C16_LoadSetsDomains ==
    pc = "loaded" =>
        \A c \in Cells :
            domains[c] = IF grid[c] # 0 THEN <<grid[c]>> ELSE FullDomain

\* C17 as stated: the re-draw attempts of one seed() call, counted over all
\* rows of all candidates, never exceed the retry budget; once they do the
\* call is over and has returned 0.
C17_TotalAttemptsBounded ==
    attempts > RetryBudget => (spc = "done" /\ sret = "0")

\* C17 amended: the budget bounds the re-draw attempts of one row.  While a
\* row is being drawn its counter is within the budget, and when the counter
\* exceeds the budget the call is over and has returned 0.
C17_RowAttemptsBounded ==
    /\ spc = "check" => ii <= RetryBudget
    /\ ii > RetryBudget => (spc = "done" /\ sret = "0")
    /\ (spc = "done" /\ sret = "0") => ii = RetryBudget + 1

\* The call gave up on a row after an earlier row had used retries too.
C17_Witness ==
    /\ spc = "done" /\ sret = "0"
    /\ ii = RetryBudget + 1
    /\ attempts > ii

\* C18: the search never changes a domain: from the first call of backtrack
\* until solve returns, every step leaves every cell's domain as ac3 left
\* it, assignments and their undoing included.
C18_SearchKeepsDomains ==
    [][(pc \in {"call", "loop", "return"}) => (domains' = domains)]_vars

\* An assignment has been undone in a nested call, and some cell still has
\* several values in its domain.
C18_Witness ==
    /\ pc = "loop"
    /\ Len(stack) >= 2
    /\ stack[Len(stack)].i >= 2
    /\ \E c \in Cells \ DOMAIN assignment : Len(domains[c]) >= 2

\* Peers of a cell: the other cells of its row, of its column and of its
\* block; the block shares Box - 1 cells with the row and with the column.
\* 20 on the 9x9 board.
PeerCount == 3 * (N - 1) - 2 * (Box - 1)

\* The relation self.neighbors holds: irreflexive, symmetric, PeerCount
\* peers per cell, the cells sharing a row, a column or a block.
PeerRelationHolds ==
    /\ DOMAIN neighbors = Cells
    /\ \A a \in Cells :
          /\ a \notin neighbors[a]
          /\ neighbors[a] \subseteq Cells
          /\ Cardinality(neighbors[a]) = PeerCount
          /\ neighbors[a] = {b \in Cells : SameUnit(a, b)}
          /\ \A b \in neighbors[a] : a \in neighbors[b]
          /\ Range(NeighborSeq(a)) = neighbors[a]
          /\ Len(NeighborSeq(a)) = PeerCount

\* C19: the peer relation is irreflexive and symmetric, every cell has
\* exactly PeerCount peers, namely the cells of its row, column and block
\* other than itself, in every state load, ac3 and backtrack reach.
C19_PeerRelation ==
    pc \in {"new", "loaded", "ac3", "call", "loop", "return", "done"} =>
        PeerRelationHolds

\* A solve has run to its end, through load, ac3 and backtrack.
C19_Witness ==
    /\ pc = "done" /\ loads = 1 /\ btCalls = 1
    /\ \A a \in Cells : Cardinality(neighbors[a]) = PeerCount

====
